---- MODULE Spec2Model ----
(***************************************************************************)
(* Model of get_podcasts.py: the per-podcast feed store (Postcast), the    *)
(* episode serialisation, the URL and date normalisers, and the main       *)
(* script that, for every podcast of the catalog, loads or builds the feed *)
(* document, reconciles it against the listing and writes <slug>.xml.      *)
(***************************************************************************)
EXTENDS Integers, Sequences, FiniteSets, TLC

\* ------------------------------------------------------------------ bounds
MaxId == 2          \* episode identifiers are 1..MaxId
MaxListLen == 2     \* longest listing the listing collaborator returns
MaxRuns == 2        \* number of times the program is run on the same folder

\* ------------------------------------------------------- values and strings
\* the podcasts of the catalog page, in page order
PageOrder == <<"a", "b">>
Slugs == {PageOrder[k] : k \in 1..Len(PageOrder)}
Ids == 1..MaxId

DigitChar == <<"0", "1", "2", "3", "4", "5", "6", "7", "8", "9">>
WS == " "

Range(s) == {s[k] : k \in 1..Len(s)}
NoDup(s) == \A j, k \in 1..Len(s) : s[j] = s[k] => j = k
IsPrefix(s, t) == Len(s) <= Len(t) /\ SubSeq(t, 1, Len(s)) = s
Last(s) == s[Len(s)]

\* str(n) of a non-negative int: its decimal digits (get_tag, str(self.id))
RECURSIVE str(_)
str(n) == IF n < 10 THEN <<DigitChar[n + 1]>>
          ELSE str(n \div 10) \o <<DigitChar[(n % 10) + 1]>>

RECURSIVE lstrip(_)
lstrip(s) == IF s # <<>> /\ Head(s) = WS THEN lstrip(Tail(s)) ELSE s

RECURSIVE rstrip(_)
rstrip(s) == IF s # <<>> /\ Last(s) = WS THEN rstrip(SubSeq(s, 1, Len(s) - 1)) ELSE s

strip(s) == rstrip(lstrip(s))

DigitVal(c) == CHOOSE d \in 0..9 : DigitChar[d + 1] = c

RECURSIVE digits_value(_)
digits_value(s) == IF s = <<>> THEN 0
                   ELSE 10 * digits_value(SubSeq(s, 1, Len(s) - 1)) + DigitVal(Last(s))

\* an int() that does not accept surrounding whitespace
int_strict(s) == IF s # <<>> /\ \A k \in 1..Len(s) : s[k] \in Range(DigitChar)
                 THEN digits_value(s)
                 ELSE -1

\* int(text): surrounding whitespace is ignored, the rest must be digits
\* (has_episode, int(item.string)); -1 stands for the ValueError case
int(s) == IF strip(s) # <<>> /\ \A k \in 1..Len(strip(s)) : strip(s)[k] \in Range(DigitChar)
          THEN digits_value(strip(s))
          ELSE -1

\* ------------------------------------------------------------------- URLs
\* a URL is its host prefix followed by its path; "" is the empty sequence
CDN_HOST == "https://static-prod.cdnilpost.com"
PRIMARY_HOST == "https://www.ilpost.it"
EP_PATH == "/ep.mp3"

EmptyUrl == <<>>
RawUrls == {EmptyUrl, <<CDN_HOST, EP_PATH>>}

\* the answers of session.head(url, timeout=5): a status, or an exception
ProbeOutcomes == {"200", "404", "500", "timeout"}

\* url.replace(cdn, primary): every occurrence is replaced
replace(url, old, new) == [k \in 1..Len(url) |-> IF url[k] = old THEN new ELSE url[k]]

\* line 72: only a URL on the CDN host is probed (one HEAD request)
probe_issued(url) == url # <<>> /\ url[1] = CDN_HOST

normalize_podcast_url(url, probe) ==
    IF ~(url # <<>> /\ url[1] = CDN_HOST) THEN url
    ELSE IF probe = "200" THEN url
    ELSE IF probe = "404" THEN replace(url, CDN_HOST, PRIMARY_HOST)
    ELSE url

\* ------------------------------------------------------------------ dates
\* a date string is its sequence of whitespace-separated tokens
ItalianMonths == [gen |-> "Jan", feb |-> "Feb", mar |-> "Mar", apr |-> "Apr",
                  mag |-> "May", giu |-> "Jun", lug |-> "Jul", ago |-> "Aug",
                  set |-> "Sep", ott |-> "Oct", nov |-> "Nov", dic |-> "Dec"]
EnglishMonths == {ItalianMonths[m] : m \in DOMAIN ItalianMonths}
\* the three-letter alphabetic tokens of the date strings of the model
Alpha3 == DOMAIN ItalianMonths \cup EnglishMonths \cup {"not"}

GoodDate == <<"31", "gen", "2026">>
BadDate == <<"not", "a", "date">>
Dates == {GoodDate, BadDate}

\* dateutil.parser.parse: day, English month, year; anything else raises
dateutil_parse(toks) ==
    IF Len(toks) = 3 /\ toks[2] \in EnglishMonths /\ toks[1] # "not"
    THEN [ok |-> TRUE, value |-> toks]
    ELSE [ok |-> FALSE, value |-> <<>>]

\* re.search(r'\b([a-z]{3})\b'): position of the first standalone 3-letter token, 0 if none
FirstAlpha3(toks) ==
    IF \E k \in 1..Len(toks) : toks[k] \in Alpha3
    THEN CHOOSE k \in 1..Len(toks) : toks[k] \in Alpha3 /\ \A j \in 1..(k - 1) : toks[j] \notin Alpha3
    ELSE 0

parse_italian_date(toks) ==
    LET m == FirstAlpha3(toks)
        sub == IF m # 0 /\ toks[m] \in DOMAIN ItalianMonths
               THEN [k \in 1..Len(toks) |->
                        IF toks[k] = toks[m] THEN ItalianMonths[toks[m]] ELSE toks[k]]
               ELSE toks
    IN dateutil_parse(sub)

\* ---------------------------------------------------------- feed documents
\* Episode.get_tag: the <item> fragment of an episode. Of its children the
\* document keeps the ones read back or told apart later: guid, description
\* and pubDate (title, enclosure, link and duration are written and never read)
get_tag(episode) ==
    [guid |-> str(episode.id),
     description |-> episode.content_html,
     pubDate |-> episode.date]

\* Postcast.feed: None, or a parsed document with or without a <channel>
NoFeed == [exists |-> FALSE, channel |-> FALSE, title |-> "", items |-> <<>>]

\* Postcast.__init__
Postcast(slug) == [slug |-> slug, feed |-> NoFeed]
NoPodcast == [slug |-> "", feed |-> NoFeed]

is_initialized(podcast) == podcast.feed.exists

\* the content of <slug>.xml
AbsentFile == [kind |-> "absent", channel |-> FALSE, title |-> "", items |-> <<>>]
EmptyFile == [kind |-> "empty", channel |-> FALSE, title |-> "", items |-> <<>>]
GarbageFile == [kind |-> "garbage", channel |-> FALSE, title |-> "", items |-> <<>>]

\* BeautifulSoup(text, 'xml'): text that is no XML document parses to an empty
\* document (the parser recovers and raises nothing)
BeautifulSoup(content) ==
    IF content.kind = "xml"
    THEN [exists |-> TRUE, channel |-> content.channel, title |-> content.title,
          items |-> content.items]
    ELSE [exists |-> TRUE, channel |-> FALSE, title |-> "", items |-> <<>>]

\* prettify(): every text node is stripped and set on a line of its own
prettify_text(s) == <<WS>> \o strip(s) \o <<WS>>

prettify(feed) ==
    [kind |-> "xml", channel |-> feed.channel, title |-> feed.title,
     items |-> [k \in 1..Len(feed.items) |->
                  [feed.items[k] EXCEPT !.guid = prettify_text(@)]]]

\* Postcast.load_existing_feed; open() raises FileNotFoundError on an absent file
load_raises(content) == content.kind = "absent"
load_existing_feed(podcast, content) == [podcast EXCEPT !.feed = BeautifulSoup(content)]

\* Postcast.initialize_feed: the template with the channel metadata of the podcast
initialize_feed(podcast) ==
    [podcast EXCEPT !.feed = [exists |-> TRUE, channel |-> TRUE,
                              title |-> podcast.slug, items |-> <<>>]]

\* has_episode comparing the guid text with str(episode_id) instead of int(text)
has_episode_text(podcast, episode_id) ==
    \E k \in 1..Len(podcast.feed.items) : podcast.feed.items[k].guid = str(episode_id)

\* has_episode taking a Postcast without a document for one without entries
has_episode_raises_lenient(podcast) == podcast.feed.exists /\ ~podcast.feed.channel

\* Postcast.has_episode: AttributeError without a document or a channel
has_episode_raises(podcast) == ~podcast.feed.exists \/ ~podcast.feed.channel
has_episode(podcast, episode_id) ==
    \E k \in 1..Len(podcast.feed.items) : int(podcast.feed.items[k].guid) = episode_id

\* add_episode without its has_episode test
add_episode_unchecked(podcast, episode) ==
    [podcast EXCEPT !.feed.items = Append(@, get_tag(episode))]

\* add_episode inserting the new entry first in the channel
add_episode_first(podcast, episode) ==
    IF \E k \in 1..Len(podcast.feed.items) : int(podcast.feed.items[k].guid) = episode.id
    THEN podcast
    ELSE [podcast EXCEPT !.feed.items = <<get_tag(episode)>> \o @]

\* Postcast.add_episode: same guard, then append unless the id is present
add_episode_raises(podcast) == ~podcast.feed.exists \/ ~podcast.feed.channel
add_episode(podcast, episode) ==
    IF has_episode(podcast, episode.id) THEN podcast
    ELSE [podcast EXCEPT !.feed.items = Append(@, get_tag(episode))]

\* the identifiers of the entries of a document or a file, in document order
EntryIds(items) == [k \in 1..Len(items) |-> int(items[k].guid)]
\* an entry whatever the layout of its text
Canon(items) == [k \in 1..Len(items) |-> [items[k] EXCEPT !.guid = strip(@)]]
CountId(items, id) == Cardinality({k \in 1..Len(items) : int(items[k].guid) = id})

\* ------------------------------------------------------- collaborators' data
\* one element of data['postcastList']
Episodes == [id : Ids, podcast_raw_url : RawUrls, date : Dates]
Listings == UNION {[1..n -> Episodes] : n \in 0..MaxListLen}

\* get_episode_content: the_content with content_html, without it (or no
\* the_content at all), or an exception of the request
ContentOutcomes == {"html", "none", "error"}

\* the keys of podcast_info_dicts in iteration order: the page's podcasts,
\* or those of them that --podcast names (lines 375-377)
RECURSIVE Filter(_, _)
Filter(seq, keep) == IF seq = <<>> THEN <<>>
                     ELSE IF Head(seq) \in keep THEN <<Head(seq)>> \o Filter(Tail(seq), keep)
                     ELSE Filter(Tail(seq), keep)
Catalogs == {Filter(PageOrder, keep) : keep \in SUBSET Slugs}

\* the command line's user and password
Credentials == {<<"user", "pw">>, <<"", "pw">>, <<"user", "">>}

\* PostcastSession.wplogin: refuses empty credentials before any request
wplogin_raises(username, password) == username = "" \/ password = ""

\* the feed files a run may find in the folder: none, text that is no feed,
\* or a feed written by an earlier run
OldEntry(id) == [guid |-> prettify_text(str(id)), description |-> "html",
                 pubDate |-> parse_italian_date(GoodDate).value]
OldFeed(slug, ids) == [kind |-> "xml", channel |-> TRUE, title |-> slug,
                       items |-> [k \in 1..Len(ids) |-> OldEntry(ids[k])]]
InitialFiles(slug) == {AbsentFile, GarbageFile, OldFeed(slug, <<1>>)}

\* ------------------------------------------------------------------ state
VARIABLES
    files,          \* folder: slug -> content of <slug>.xml
    run,            \* number of runs of the program started so far
    pc,             \* position of the main script
    args,           \* <<user, password>> of the current run
    catalog,        \* slugs to process, in order
    idx,            \* number of podcasts of the catalog written in this run
    p,              \* the Postcast being processed
    logged_in,      \* PostcastSession.logged_in
    listing,        \* data['postcastList'] of the podcast being processed
    i,              \* position of the episode loop in the listing
    episode,        \* the Episode built last (lines 290 and 411)
    loginAttempts,  \* history: wplogin calls of this run
    loadedFile,     \* history: what load_existing_feed read for p
    addCalls,       \* history: ids add_episode was called with on p's document
    reconciled,     \* history: slug -> document at the end of its episode loop
    persisted,      \* history: slugs written in this run
    allUpToDate,    \* history: no podcast of this run was new or lacked a listed episode
    created,        \* history: slugs whose file descends from initialize_feed and a write
    added,          \* history: slug -> ids passed to add_episode on a created, written feed
    fetches,        \* history: content requests sent while processing p
    probes,         \* history: HEAD requests sent while processing p
    lastContent,    \* history: answer to the content request of the last loop iteration
    listed,         \* history: listing requests sent while processing p
    call,           \* the function of the module a caller called last, with its outcome
    world           \* the collaborators: the answers given so far, where they stay the same

vars == <<files, run, pc, args, catalog, idx, p, logged_in, listing, i, episode,
          loginAttempts, loadedFile, addCalls, reconciled, persisted, allUpToDate,
          created, added, fetches, probes, lastContent, listed, call, world>>

net == <<fetches, probes, lastContent>>

hist == <<loginAttempts, loadedFile, addCalls, reconciled, persisted, allUpToDate,
          created, added, net>>

NoEpisode == [id |-> 0, content_html |-> "", podcast_raw_url |-> EmptyUrl, date |-> <<>>]

NotReconciled == [s \in Slugs |-> AbsentFile]

NoCall == [op |-> "-", id |-> 0, url |-> EmptyUrl, probe |-> "-", content |-> "-",
           raised |-> FALSE, found |-> FALSE, result |-> EmptyUrl]

\* The collaborators (platform, CDN). A free world answers every request
\* anew; a world with same = TRUE answers a request it has answered before
\* (catalog page, login, listing of a slug, content of an id, HEAD of the
\* media URL) as it answered it then, in this run and in the next.
FreeWorld ==
    [same |-> FALSE, catalog |-> "-", login |-> "-",
     listing |-> [s \in Slugs |-> [asked |-> FALSE, ok |-> FALSE, l |-> <<>>]],
     content |-> [k \in Ids |-> "-"], probe |-> "-"]
SameWorld == [FreeWorld EXCEPT !.same = TRUE]

Agrees(known, answer) == ~world.same \/ known = "-" \/ known = answer
AgreesListing(slug, ok, l) ==
    ~world.same \/ ~world.listing[slug].asked
    \/ world.listing[slug] = [asked |-> TRUE, ok |-> ok, l |-> l]
Learn(w) == IF world.same THEN w ELSE world

InitWorld(w) ==
    /\ world = w
    /\ files \in [Slugs -> UNION {InitialFiles(s) : s \in Slugs}]
    /\ \A s \in Slugs : files[s] \in InitialFiles(s)
    /\ run = 0
    /\ pc = "idle"
    /\ args = <<"", "">>
    /\ catalog = <<>>
    /\ idx = 0
    /\ p = NoPodcast
    /\ logged_in = FALSE
    /\ listing = <<>>
    /\ i = 0
    /\ episode = NoEpisode
    /\ loginAttempts = 0
    /\ loadedFile = AbsentFile
    /\ addCalls = <<>>
    /\ reconciled = NotReconciled
    /\ persisted = {}
    /\ allUpToDate = TRUE
    /\ created = {}
    /\ added = [s \in Slugs |-> {}]
    /\ fetches = 0
    /\ probes = 0
    /\ lastContent = "-"
    /\ listed = 0
    /\ call = NoCall

Init == InitWorld(FreeWorld)

\* an exception reaches the except clause of the script: logged, the process ends
Raise == pc' = "failed"

\* ---------------------------------------------------------------- the script
\* lines 369-379: a new process, a new session, the catalog
StartRun ==
    /\ pc \in {"idle", "finished", "failed"}
    /\ run < MaxRuns
    /\ run' = run + 1
    /\ \E a \in Credentials : args' = a /\ ((world.same /\ run >= 1) => a = args)
    /\ \E c \in Catalogs : catalog' = c /\ ((world.same /\ run >= 1) => c = catalog)
    /\ Agrees(world.catalog, "ok")
    /\ world' = Learn([world EXCEPT !.catalog = "ok"])
    /\ pc' = "next"
    /\ idx' = 0
    /\ p' = NoPodcast
    /\ logged_in' = FALSE
    /\ listing' = <<>>
    /\ i' = 0
    /\ episode' = NoEpisode
    /\ loginAttempts' = 0
    /\ loadedFile' = AbsentFile
    /\ addCalls' = <<>>
    /\ reconciled' = NotReconciled
    /\ persisted' = {}
    /\ allUpToDate' = TRUE
    /\ fetches' = 0
    /\ probes' = 0
    /\ lastContent' = "-"
    /\ UNCHANGED <<files, created, added>>
    /\ listed' = 0
    /\ UNCHANGED call

\* data_of_podcast_page raises (no __NEXT_DATA__, request error)
StartRunCatalogError ==
    /\ pc \in {"idle", "finished", "failed"}
    /\ run < MaxRuns
    /\ run' = run + 1
    /\ \E a \in Credentials : args' = a /\ ((world.same /\ run >= 1) => a = args)
    /\ Agrees(world.catalog, "error")
    /\ world' = Learn([world EXCEPT !.catalog = "error"])
    /\ catalog' = <<>>
    /\ Raise
    /\ idx' = 0
    /\ p' = NoPodcast
    /\ logged_in' = FALSE
    /\ listing' = <<>>
    /\ i' = 0
    /\ episode' = NoEpisode
    /\ loginAttempts' = 0
    /\ loadedFile' = AbsentFile
    /\ addCalls' = <<>>
    /\ reconciled' = NotReconciled
    /\ persisted' = {}
    /\ allUpToDate' = TRUE
    /\ fetches' = 0
    /\ probes' = 0
    /\ lastContent' = "-"
    /\ UNCHANGED <<files, created, added>>
    /\ listed' = 0
    /\ UNCHANGED call

\* lines 382-383: the next slug of the catalog
NextPodcast ==
    /\ pc \in {"next", "persisted"}
    /\ idx < Len(catalog)
    /\ p' = Postcast(catalog[idx + 1])
    /\ pc' = "load"
    /\ listing' = <<>>
    /\ i' = 0
    /\ loadedFile' = AbsentFile
    /\ addCalls' = <<>>
    /\ fetches' = 0
    /\ probes' = 0
    /\ lastContent' = "-"
    /\ UNCHANGED <<files, run, args, catalog, idx, logged_in, episode, loginAttempts,
                   reconciled, persisted, allUpToDate, created, added>>
    /\ listed' = 0
    /\ UNCHANGED <<call, world>>

\* the for loop over the catalog is exhausted: the process ends
FinishRun ==
    /\ pc \in {"next", "persisted"}
    /\ idx = Len(catalog)
    /\ pc' = "finished"
    /\ UNCHANGED <<files, run, args, catalog, idx, p, logged_in, listing, i, episode, hist>>
    /\ UNCHANGED <<listed, call, world>>

\* line 385: load_existing_feed, or FileNotFoundError caught at line 428
Load ==
    /\ pc = "load"
    /\ IF load_raises(files[p.slug])
       THEN /\ pc' = "notfound"
            /\ allUpToDate' = FALSE
            /\ UNCHANGED <<p, loadedFile>>
       ELSE /\ p' = load_existing_feed(p, files[p.slug])
            /\ loadedFile' = files[p.slug]
            /\ pc' = "loaded"
            /\ UNCHANGED allUpToDate
    /\ UNCHANGED <<files, run, args, catalog, idx, logged_in, listing, i, episode,
                   loginAttempts, addCalls, reconciled, persisted, created, added, net>>
    /\ UNCHANGED <<listed, call, world>>

\* a login that is skipped when the session is logged in already
wplogin_once(next) ==
    /\ loginAttempts' = IF logged_in THEN loginAttempts ELSE loginAttempts + 1
    /\ IF logged_in
       THEN pc' = next /\ UNCHANGED logged_in
       ELSE IF wplogin_raises(args[1], args[2])
       THEN Raise /\ UNCHANGED logged_in
       ELSE \/ pc' = next /\ logged_in' = TRUE
            \/ Raise /\ UNCHANGED logged_in
    /\ UNCHANGED <<files, run, args, catalog, idx, p, listing, i, episode,
                   loadedFile, addCalls, reconciled, persisted, allUpToDate, created, added,
                   net>>
    /\ UNCHANGED world

\* lines 388 and 430: s.wplogin(username, password); the POST may fail
wplogin(next) ==
    /\ loginAttempts' = loginAttempts + 1
    /\ IF wplogin_raises(args[1], args[2])
       THEN Raise /\ UNCHANGED <<logged_in, world>>
       ELSE \/ /\ Agrees(world.login, "ok")
               /\ world' = Learn([world EXCEPT !.login = "ok"])
               /\ pc' = next /\ logged_in' = TRUE
            \/ /\ Agrees(world.login, "error")
               /\ world' = Learn([world EXCEPT !.login = "error"])
               /\ Raise /\ UNCHANGED logged_in
    /\ UNCHANGED <<files, run, args, catalog, idx, p, listing, i, episode,
                   loadedFile, addCalls, reconciled, persisted, allUpToDate, created, added,
                   net>>

LoginExisting == pc = "loaded" /\ wplogin("listing") /\ UNCHANGED <<listed, call>>

LoginFresh == pc = "notfound" /\ wplogin("build") /\ UNCHANGED <<listed, call>>

\* get_podcast_data without its test of logged_in
get_podcast_data_ungated(podcast, next) ==
    /\ listed' = listed + 1
    /\ UNCHANGED world
    /\ \/ \E l \in Listings : listing' = l /\ i' = 1 /\ pc' = next
       \/ Raise /\ UNCHANGED <<listing, i>>

\* get_podcast_data: refuses a session that is not logged in; the request or
\* its answer may fail (transport, JSON, msg other than OK)
get_podcast_data(podcast, next) ==
    IF ~logged_in
    THEN Raise /\ UNCHANGED <<listing, i, listed, world>>
    ELSE /\ listed' = listed + 1
         /\ \/ \E l \in Listings :
                  /\ AgreesListing(podcast.slug, TRUE, l)
                  /\ world' = Learn([world EXCEPT !.listing[podcast.slug] =
                                        [asked |-> TRUE, ok |-> TRUE, l |-> l]])
                  /\ listing' = l /\ i' = 1 /\ pc' = next
            \/ /\ AgreesListing(podcast.slug, FALSE, <<>>)
               /\ world' = Learn([world EXCEPT !.listing[podcast.slug] =
                                     [asked |-> TRUE, ok |-> FALSE, l |-> <<>>]])
               /\ Raise /\ UNCHANGED <<listing, i>>

\* line 389
FetchListing ==
    /\ pc = "listing"
    /\ get_podcast_data(p, "loop")
    /\ UNCHANGED <<files, run, args, catalog, idx, p, logged_in, episode, hist>>
    /\ UNCHANGED call

\* the description taken from the answer as it is, None when there is no content_html
content_html_of_str(content) == IF content = "html" THEN "html" ELSE "None"

\* get_episode_content: refuses a session that is not logged in, without a
\* request; else one GET, whose failure or undecodable answer is an exception
get_episode_content_raises(content) == ~logged_in \/ content = "error"
get_episode_content(content) ==
    /\ fetches' = IF logged_in THEN fetches + 1 ELSE fetches
    /\ lastContent' = IF logged_in THEN content ELSE "-"

\* lines 278-281 and 398-401: CData(content_html), or "" when there is none
content_html_of(content) == IF content = "html" THEN "html" ELSE ""

\* lines 290-298 and 411-419: the Episode built from a listing element
Episode(json_episode, content, probe) ==
    [id |-> json_episode.id,
     content_html |-> content_html_of(content),
     podcast_raw_url |-> normalize_podcast_url(json_episode.podcast_raw_url, probe),
     date |-> parse_italian_date(json_episode.date).value]

\* the answers to the requests of one iteration: the content of the episode,
\* and the HEAD of its media URL when the iteration gets to the probe
Answered(json_episode, content, probe) ==
    LET probed == content # "error" /\ probe_issued(json_episode.podcast_raw_url)
    IN  /\ Agrees(world.content[json_episode.id], content)
        /\ probed => Agrees(world.probe, probe)
        /\ world' = Learn([world EXCEPT !.content[json_episode.id] = content,
                                         !.probe = IF probed THEN probe ELSE @])

\* lines 277-300 and 397-420: content fetch, empty-URL skip, URL probe, date,
\* add_episode, for the listing element at position i
ProcessEpisode(json_episode, content, probe) ==
    IF ~logged_in
    THEN /\ get_episode_content(content) /\ Raise
         /\ UNCHANGED <<p, i, episode, addCalls, probes, world>>
    ELSE /\ get_episode_content(content)
         /\ Answered(json_episode, content, probe)
         /\ IF get_episode_content_raises(content)
            THEN Raise /\ UNCHANGED <<p, i, episode, addCalls, probes>>
            ELSE IF json_episode.podcast_raw_url = EmptyUrl
            THEN i' = i + 1 /\ UNCHANGED <<pc, p, episode, addCalls, probes>>
            ELSE /\ probes' = probes + (IF probe_issued(json_episode.podcast_raw_url) THEN 1 ELSE 0)
                 /\ IF ~parse_italian_date(json_episode.date).ok
                    THEN Raise /\ UNCHANGED <<p, i, episode, addCalls>>
                    ELSE /\ episode' = Episode(json_episode, content, probe)
                         /\ IF add_episode_raises(p)
                            THEN Raise /\ UNCHANGED <<p, i, addCalls>>
                            ELSE /\ p' = add_episode(p, episode')
                                 /\ addCalls' = Append(addCalls, json_episode.id)
                                 /\ i' = i + 1
                                 /\ UNCHANGED pc

\* the iteration without the has_episode test of lines 393-394
IncrementalStep_unchecked ==
    /\ pc = "loop"
    /\ i <= Len(listing)
    /\ IF has_episode_raises(p)
       THEN /\ Raise /\ lastContent' = "-"
            /\ UNCHANGED <<p, i, episode, addCalls, allUpToDate, fetches, probes, world>>
       ELSE /\ allUpToDate' = FALSE
            /\ \E content \in ContentOutcomes, probe \in ProbeOutcomes :
                  ProcessEpisode(listing[i], content, probe)
    /\ UNCHANGED <<files, run, args, catalog, idx, logged_in, listing,
                   loginAttempts, loadedFile, reconciled, persisted, created, added>>
    /\ UNCHANGED <<listed, call>>

\* lines 392-421: one iteration of the loop over an existing feed
IncrementalStep ==
    /\ pc = "loop"
    /\ i <= Len(listing)
    /\ IF has_episode_raises(p)
       THEN /\ Raise /\ lastContent' = "-"
            /\ UNCHANGED <<p, i, episode, addCalls, allUpToDate, fetches, probes, world>>
       ELSE IF has_episode(p, listing[i].id)
       THEN /\ i' = i + 1 /\ lastContent' = "-"
            /\ UNCHANGED <<pc, p, episode, addCalls, allUpToDate, fetches, probes, world>>
       ELSE /\ allUpToDate' = FALSE
            /\ \E content \in ContentOutcomes, probe \in ProbeOutcomes :
                  ProcessEpisode(listing[i], content, probe)
    /\ UNCHANGED <<files, run, args, catalog, idx, logged_in, listing,
                   loginAttempts, loadedFile, reconciled, persisted, created, added>>
    /\ UNCHANGED <<listed, call>>

\* lines 270-275: build_feed up to the listing
BuildFeedStart ==
    /\ pc = "build"
    /\ IF ~logged_in
       THEN Raise /\ UNCHANGED <<p, listing, i, listed, world>>
       ELSE /\ p' = IF is_initialized(p) THEN p ELSE initialize_feed(p)
            /\ get_podcast_data(p, "build_loop")
    /\ UNCHANGED <<files, run, args, catalog, idx, logged_in, episode, hist>>
    /\ UNCHANGED call

\* lines 276-300: one iteration of build_feed's loop
BuildStep ==
    /\ pc = "build_loop"
    /\ i <= Len(listing)
    /\ \E content \in ContentOutcomes, probe \in ProbeOutcomes :
          ProcessEpisode(listing[i], content, probe)
    /\ UNCHANGED <<files, run, args, catalog, idx, logged_in, listing,
                   loginAttempts, loadedFile, reconciled, persisted, allUpToDate,
                   created, added>>
    /\ UNCHANGED <<listed, call>>

\* the loop left after its first iteration, whatever is still listed
EndLoop_early ==
    /\ pc \in {"loop", "build_loop"}
    /\ i > 1
    /\ pc' = "write"
    /\ reconciled' = [reconciled EXCEPT ![p.slug] = prettify(p.feed)]
    /\ UNCHANGED <<files, run, args, catalog, idx, p, logged_in, listing, i, episode,
                   loginAttempts, loadedFile, addCalls, persisted, allUpToDate,
                   created, added, net>>
    /\ UNCHANGED <<listed, call, world>>

\* the episode loop is exhausted (lines 423-426, 308)
EndLoop ==
    /\ pc \in {"loop", "build_loop"}
    /\ i > Len(listing)
    /\ pc' = "write"
    /\ reconciled' = [reconciled EXCEPT ![p.slug] = prettify(p.feed)]
    /\ UNCHANGED <<files, run, args, catalog, idx, p, logged_in, listing, i, episode,
                   loginAttempts, loadedFile, addCalls, persisted, allUpToDate,
                   created, added, net>>
    /\ UNCHANGED <<listed, call, world>>

\* a write that puts the newest entry first
write_file_newest_first(podcast) ==
    IF podcast.feed.exists
    THEN prettify([podcast.feed EXCEPT !.items =
                      [k \in 1..Len(@) |-> @[Len(@) + 1 - k]]])
    ELSE EmptyFile

\* a write with the test of line 435 inverted: the file is opened and left empty
write_file_nothing(podcast) == IF podcast.feed.exists THEN EmptyFile ELSE prettify(podcast.feed)

\* lines 432-436: open(<slug>.xml, 'w') and write the prettified document
write_file(podcast) == IF podcast.feed.exists THEN prettify(podcast.feed) ELSE EmptyFile

Persist ==
    /\ pc = "write"
    /\ files' = [files EXCEPT ![p.slug] = write_file(p)]
    /\ persisted' = persisted \cup {p.slug}
    /\ idx' = idx + 1
    /\ pc' = "persisted"
    /\ created' = IF loadedFile.kind = "absent" THEN created \cup {p.slug} ELSE created
    /\ added' = IF loadedFile.kind = "absent"
                THEN [added EXCEPT ![p.slug] = Range(addCalls)]
                ELSE IF p.slug \in created
                THEN [added EXCEPT ![p.slug] = @ \cup Range(addCalls)]
                ELSE added
    /\ UNCHANGED <<run, args, catalog, p, logged_in, listing, i, episode,
                   loginAttempts, loadedFile, addCalls, reconciled, allUpToDate, net>>
    /\ UNCHANGED <<listed, call, world>>

Next ==
    \/ StartRun
    \/ StartRunCatalogError
    \/ NextPodcast
    \/ FinishRun
    \/ Load
    \/ LoginExisting
    \/ LoginFresh
    \/ FetchListing
    \/ IncrementalStep
    \/ BuildFeedStart
    \/ BuildStep
    \/ EndLoop
    \/ Persist

Spec == Init /\ [][Next]_vars

\* ---------------------------------------------------- callers of the module
\* The classes and functions of the module used by code other than the
\* script: one call at a time, in any order, on one Postcast and one
\* PostcastSession. Such a caller is no run of the script (run = NoRun); pc is
\* "api" while the caller is between calls, "failed" when the last call
\* raised, "write" when build_feed has returned.
NoRun == MaxRuns + 1
OTHER_HOST == "https://example.org"
ApiUrls == RawUrls \cup {<<OTHER_HOST, EP_PATH>>, <<CDN_HOST, "/r?u=", CDN_HOST, EP_PATH>>}

Called(op) == [NoCall EXCEPT !.op = op]

ApiCalls ==
    {Called(op) : op \in {"Postcast", "PostcastSession", "initialize_feed",
                          "load_existing_feed", "wplogin", "get_podcast_data",
                          "get_episode_content", "build_feed"}}
    \cup {[Called("has_episode") EXCEPT !.id = k] : k \in Ids}
    \cup {[Called("add_episode") EXCEPT !.id = k, !.content = c] :
              k \in Ids, c \in {"html", "none"}}
    \cup {[Called("normalize_podcast_url") EXCEPT !.url = u] : u \in ApiUrls}

\* the Episode a caller passes to add_episode
ApiEpisode(c) ==
    [id |-> c.id, content_html |-> content_html_of(c.content),
     podcast_raw_url |-> <<CDN_HOST, EP_PATH>>,
     date |-> parse_italian_date(GoodDate).value]

ApiReturned == run = NoRun /\ pc \in {"api", "failed", "write"}

InitApi ==
    /\ \E f \in InitialFiles(PageOrder[1]) :
          files = [s \in Slugs |-> IF s = PageOrder[1] THEN f ELSE AbsentFile]
    /\ run = NoRun
    /\ pc = "api"
    /\ args = <<"", "">>
    /\ catalog = <<>>
    /\ idx = 0
    /\ p = Postcast(PageOrder[1])
    /\ logged_in = FALSE
    /\ listing = <<>>
    /\ i = 0
    /\ episode = NoEpisode
    /\ loginAttempts = 0
    /\ loadedFile = AbsentFile
    /\ addCalls = <<>>
    /\ reconciled = NotReconciled
    /\ persisted = {}
    /\ allUpToDate = TRUE
    /\ created = {}
    /\ added = [s \in Slugs |-> {}]
    /\ fetches = 0
    /\ probes = 0
    /\ lastContent = "-"
    /\ listed = 0
    /\ call = NoCall
    /\ world = FreeWorld

\* the caller makes its next call; the request counters restart with it
Call ==
    /\ ApiReturned
    /\ \E c \in ApiCalls, a \in Credentials :
          /\ call' = c
          /\ pc' = IF c.op = "build_feed" THEN "build" ELSE "call"
          /\ episode' = IF c.op = "add_episode" THEN ApiEpisode(c) ELSE NoEpisode
          /\ args' = IF c.op = "wplogin" THEN a ELSE <<"", "">>
    /\ listing' = <<>>
    /\ i' = 0
    /\ loginAttempts' = 0
    /\ addCalls' = <<>>
    /\ fetches' = 0
    /\ probes' = 0
    /\ lastContent' = "-"
    /\ listed' = 0
    /\ reconciled' = NotReconciled
    /\ UNCHANGED <<files, run, catalog, idx, p, logged_in, loadedFile,
                   persisted, allUpToDate, created, added>>
    /\ UNCHANGED world

InCall(op) == run = NoRun /\ pc = "call" /\ call.op = op

\* lines 151-159: Postcast(slug, info)
DoPostcast ==
    /\ InCall("Postcast")
    /\ p' = Postcast(PageOrder[1])
    /\ loadedFile' = AbsentFile
    /\ pc' = "api"
    /\ UNCHANGED <<files, run, args, catalog, idx, logged_in, listing, i, episode,
                   loginAttempts, addCalls, reconciled, persisted, allUpToDate,
                   created, added, net, listed, call>>
    /\ UNCHANGED world

\* lines 221-223: PostcastSession()
DoPostcastSession ==
    /\ InCall("PostcastSession")
    /\ logged_in' = FALSE
    /\ pc' = "api"
    /\ UNCHANGED <<files, run, args, catalog, idx, p, listing, i, episode, hist,
                   listed, call>>
    /\ UNCHANGED world

DoInitializeFeed ==
    /\ InCall("initialize_feed")
    /\ p' = initialize_feed(p)
    /\ loadedFile' = AbsentFile
    /\ pc' = "api"
    /\ UNCHANGED <<files, run, args, catalog, idx, logged_in, listing, i, episode,
                   loginAttempts, addCalls, reconciled, persisted, allUpToDate,
                   created, added, net, listed, call>>
    /\ UNCHANGED world

DoLoadExistingFeed ==
    /\ InCall("load_existing_feed")
    /\ IF load_raises(files[p.slug])
       THEN /\ Raise
            /\ call' = [call EXCEPT !.raised = TRUE]
            /\ UNCHANGED <<p, loadedFile>>
       ELSE /\ p' = load_existing_feed(p, files[p.slug])
            /\ loadedFile' = files[p.slug]
            /\ pc' = "api"
            /\ UNCHANGED call
    /\ UNCHANGED <<files, run, args, catalog, idx, logged_in, listing, i, episode,
                   loginAttempts, addCalls, reconciled, persisted, allUpToDate,
                   created, added, net, listed>>
    /\ UNCHANGED world

DoHasEpisode ==
    /\ InCall("has_episode")
    /\ IF has_episode_raises(p)
       THEN Raise /\ call' = [call EXCEPT !.raised = TRUE]
       ELSE pc' = "api" /\ call' = [call EXCEPT !.found = has_episode(p, call.id)]
    /\ UNCHANGED <<files, run, args, catalog, idx, p, logged_in, listing, i, episode,
                   hist, listed>>
    /\ UNCHANGED world

DoAddEpisode ==
    /\ InCall("add_episode")
    /\ IF add_episode_raises(p)
       THEN Raise /\ call' = [call EXCEPT !.raised = TRUE] /\ UNCHANGED p
       ELSE pc' = "api" /\ p' = add_episode(p, episode) /\ UNCHANGED call
    /\ UNCHANGED <<files, run, args, catalog, idx, logged_in, listing, i, episode,
                   hist, listed>>
    /\ UNCHANGED world

DoWplogin ==
    /\ InCall("wplogin")
    /\ wplogin("api")
    /\ call' = [call EXCEPT !.raised = (pc' = "failed")]
    /\ UNCHANGED listed

DoGetPodcastData ==
    /\ InCall("get_podcast_data")
    /\ get_podcast_data(p, "api")
    /\ call' = [call EXCEPT !.raised = (pc' = "failed")]
    /\ UNCHANGED <<files, run, args, catalog, idx, p, logged_in, episode, hist>>

DoGetEpisodeContent ==
    /\ InCall("get_episode_content")
    /\ \E content \in ContentOutcomes :
          /\ get_episode_content(content)
          /\ IF get_episode_content_raises(content) THEN Raise ELSE pc' = "api"
          /\ call' = [call EXCEPT !.content = lastContent', !.raised = (pc' = "failed")]
    /\ UNCHANGED <<files, run, args, catalog, idx, p, logged_in, listing, i, episode,
                   loginAttempts, loadedFile, addCalls, reconciled, persisted,
                   allUpToDate, created, added, probes, listed>>
    /\ UNCHANGED world

\* normalize_podcast_url has no raise that leaves it (lines 73-84)
DoNormalize ==
    /\ InCall("normalize_podcast_url")
    /\ \E probe \in ProbeOutcomes :
          call' = [call EXCEPT
                     !.probe = IF probe_issued(call.url) THEN probe ELSE "-",
                     !.result = normalize_podcast_url(call.url, probe)]
    /\ probes' = probes + (IF probe_issued(call.url) THEN 1 ELSE 0)
    /\ pc' = "api"
    /\ UNCHANGED <<files, run, args, catalog, idx, p, logged_in, listing, i, episode,
                   loginAttempts, loadedFile, addCalls, reconciled, persisted,
                   allUpToDate, created, added, fetches, lastContent, listed>>
    /\ UNCHANGED world

\* build_feed is BuildFeedStart, BuildStep and EndLoop
NextApi ==
    \/ Call
    \/ DoPostcast
    \/ DoPostcastSession
    \/ DoInitializeFeed
    \/ DoLoadExistingFeed
    \/ DoHasEpisode
    \/ DoAddEpisode
    \/ DoWplogin
    \/ DoGetPodcastData
    \/ DoGetEpisodeContent
    \/ DoNormalize
    \/ BuildFeedStart
    \/ BuildStep
    \/ EndLoop

SpecApi == InitApi /\ [][NextApi]_vars

\* the script and the other callers together
InitAll == Init \/ InitApi
NextAll == Next \/ NextApi
SpecAll == InitAll /\ [][NextAll]_vars

\* the script run again and again in a world that answers alike every time
InitTwice == InitWorld(SameWorld)
SpecTwice == InitTwice /\ [][Next]_vars

\* ------------------------------------------------------------ claim helpers
\* this step is a call of add_episode that got past its guard
AddEpisodeCalled == Len(addCalls') = Len(addCalls) + 1
\* the listing of the podcast being processed has been fetched
ListingFetched == i >= 1
\* the document of p was made by initialize_feed, not read from a file
FreshDocument == p.feed.exists /\ loadedFile.kind = "absent"
\* the ids of a listing that are not in `ids`, first occurrences, in listing order
RECURSIVE NewIds(_, _)
NewIds(l, ids) ==
    IF l = <<>> THEN <<>>
    ELSE IF Head(l).id \in Range(ids) THEN NewIds(Tail(l), ids)
    ELSE <<Head(l).id>> \o NewIds(Tail(l), ids \o <<Head(l).id>>)

C2_UniqueIds ==
    /\ NoDup(EntryIds(p.feed.items))
    /\ \A s \in Slugs : NoDup(EntryIds(files[s].items))

C2_Witness ==
    /\ pc = "persisted"
    /\ Len(listing) = 2 /\ listing[1].id = listing[2].id
    /\ CountId(files[p.slug].items, listing[1].id) = 1
    /\ Len(files[p.slug].items) = 2

\* C3: order preservation: on a document made by initialize_feed, add_episode
\* calls with pairwise distinct ids leave the entries in the order of the
\* calls, and every call with an id not yet present puts its entry after all
\* the entries already in the channel.
C3_OrderPreserved ==
    /\ []((FreshDocument /\ NoDup(addCalls)) => EntryIds(p.feed.items) = addCalls)
    /\ [][(AddEpisodeCalled /\ ~has_episode(p, Last(addCalls')))
            => /\ SubSeq(p'.feed.items, 1, Len(p.feed.items)) = p.feed.items
               /\ EntryIds(p'.feed.items) = Append(EntryIds(p.feed.items), Last(addCalls'))]_vars

C3_Witness ==
    /\ FreshDocument
    /\ addCalls = <<2, 1>>
    /\ EntryIds(p.feed.items) = <<2, 1>>

\* C4: append-only: in every step the entries of the document in memory (of
\* the same podcast) and of every feed file before the step are a prefix of
\* the entries after it: nothing is removed, replaced or reordered.
C4_AppendOnly ==
    [][/\ (p'.slug = p.slug /\ p.feed.exists)
            => IsPrefix(Canon(p.feed.items), Canon(p'.feed.items))
       /\ \A s \in Slugs : IsPrefix(Canon(files[s].items), Canon(files'[s].items))]_vars

C4_Witness ==
    /\ pc = "persisted"
    /\ loadedFile.kind = "xml" /\ Len(loadedFile.items) >= 1
    /\ Len(files[p.slug].items) > Len(loadedFile.items)

\* C5: end-to-end reconciliation: once the run of a podcast with an existing
\* feed of ids E is over (written, or stopped by an error) and its listing L
\* had only non-empty media URLs and parsable dates, the feed file holds E in
\* its old order followed by the ids of L not in E in listing order.
C5_ReconcilesToUnion ==
    (/\ pc \in {"persisted", "failed"}
     /\ ListingFetched
     /\ loadedFile.kind = "xml" /\ loadedFile.channel
     /\ \A k \in 1..Len(listing) : /\ listing[k].podcast_raw_url # EmptyUrl
                                   /\ parse_italian_date(listing[k].date).ok)
    => EntryIds(files[p.slug].items)
         = EntryIds(loadedFile.items) \o NewIds(listing, EntryIds(loadedFile.items))

\* C6: round trip: a document read back from a file that descends from
\* initialize_feed, add_episode calls and a write has has_episode true for
\* exactly the ids that add_episode was called with before the write.
C6_RoundTrip ==
    (pc = "loaded" /\ p.slug \in created)
    => /\ ~has_episode_raises(p)
       /\ \A id \in Ids : has_episode(p, id) <=> id \in added[p.slug]

C6_Witness ==
    /\ pc = "loaded" /\ p.slug \in created
    /\ \E id \in Ids : id \in added[p.slug] /\ has_episode(p, id)
    /\ \E id \in Ids : id \notin added[p.slug] /\ ~has_episode(p, id)

\* C7: per-podcast isolation: when the run has ended on an error of one
\* podcast (after a successful login: a listing failure, an unparsable date,
\* a corrupt feed), every other podcast of the catalog has been written.
C7_PerPodcastIsolation ==
    (pc = "failed" /\ logged_in) => (Range(catalog) \ {p.slug}) \subseteq persisted

\* C8: a feed file that exists and has no channel is never overwritten: its
\* content stays what load_existing_feed read, whatever the listing.
C8_CorruptFileKept ==
    (loadedFile.kind # "absent" /\ ~BeautifulSoup(loadedFile).channel)
    => files[p.slug] = loadedFile

\* C9: partial-batch durability: when an error has stopped the run, every
\* podcast whose episode loop had completed has its reconciled document in
\* its file.
C9_PartialBatchDurable ==
    pc = "failed"
    => \A s \in Slugs : reconciled[s] # AbsentFile
                        => (s \in persisted /\ files[s] = reconciled[s])

C9_Witness ==
    /\ pc = "failed"
    /\ idx = 1 /\ Len(catalog) = 2
    /\ reconciled[catalog[1]] # AbsentFile
    /\ Len(files[catalog[1]].items) = 2

\* every podcast of the catalog has a well-formed feed file, and the podcast
\* processed last had a listing with episodes in it
FeedsInPlace == (\A k \in 1..Len(catalog) : files[catalog[k]].channel) /\ listing # <<>>

\* C10 as claimed: at the end of a run in which every podcast had a feed that
\* already held every listed episode, no login attempt was made.
C10_LazyLogin ==
    (pc = "finished" /\ allUpToDate /\ FeedsInPlace) => loginAttempts = 0

\* C10 amended: one login attempt per podcast processed, made after the
\* podcast's feed file was looked up and before its listing is fetched,
\* whether or not an episode needs fetching; idx podcasts are done.
C10_LoginPerPodcast ==
    /\ pc \in {"idle", "next", "load", "loaded", "notfound", "persisted", "finished"}
          => loginAttempts = idx
    /\ pc \in {"listing", "loop", "build", "build_loop", "write"}
          => loginAttempts = idx + 1
    /\ pc = "failed" => loginAttempts \in {idx, idx + 1}
    /\ (pc = "finished" /\ allUpToDate) => loginAttempts = Len(catalog)

C10_Witness ==
    /\ pc = "finished" /\ allUpToDate /\ FeedsInPlace
    /\ Len(catalog) = 2
    /\ loginAttempts = 2

\* the next step is one iteration of an episode loop, on listing[i]
EpisodeStep == pc \in {"loop", "build_loop"} /\ i >= 1 /\ i <= Len(listing)

\* listing[i] can become an entry: the document has a channel without its id,
\* and its media URL is there
Addable(e) ==
    /\ p.feed.channel
    /\ ~has_episode(p, e.id)
    /\ e.podcast_raw_url # EmptyUrl

\* the step appended one entry for episode e, with this description
AppendedEntry(e, description) ==
    /\ Len(p'.feed.items) = Len(p.feed.items) + 1
    /\ SubSeq(p'.feed.items, 1, Len(p.feed.items)) = p.feed.items
    /\ int(Last(p'.feed.items).guid) = e.id
    /\ Last(p'.feed.items).description = description

\* C11: a failed content request is not fatal: when the content request for
\* a new episode with a media URL and a readable date fails, the episode is
\* appended with an empty description and the loop goes on to the next one.
C11_ContentFailureNotFatal ==
    [][(EpisodeStep /\ Addable(listing[i]) /\ parse_italian_date(listing[i].date).ok
        /\ lastContent' = "error")
       => (AppendedEntry(listing[i], "") /\ pc' = pc /\ i' = i + 1)]_vars

\* C12 as claimed: every step on a new listed episode with a media URL whose
\* content request returns no content_html appends an entry with that id and
\* an empty description, in build_feed's loop and in the incremental loop.
C12_MissingContentKept ==
    [][(EpisodeStep /\ Addable(listing[i]) /\ lastContent' = "none")
       => AppendedEntry(listing[i], "")]_vars

\* C12 amended: the same, for an episode whose date can be read; the loop
\* then goes on to the next element.
C12_MissingContentKeptReadableDate ==
    [][(EpisodeStep /\ Addable(listing[i]) /\ parse_italian_date(listing[i].date).ok
        /\ lastContent' = "none")
       => (AppendedEntry(listing[i], "") /\ pc' = pc /\ i' = i + 1)]_vars

\* an episode without content was added to a loaded feed, after such an
\* episode had been added to the fresh feed of another podcast
C12_Witness ==
    /\ pc = "loop" /\ lastContent = "none"
    /\ Len(loadedFile.items) = 1 /\ Len(addCalls) = 1 /\ Len(p.feed.items) = 2
    /\ Last(p.feed.items).description = ""
    /\ \E s \in created \ {p.slug} :
          /\ files[s].items # <<>>
          /\ Last(files[s].items).description = ""

\* C13: a listed episode with an empty media URL is skipped entirely: the
\* step on it leaves the document as it is (no entry, has_episode of its id
\* unchanged), sends no HEAD request, and the loop goes on to the next element.
C13_EmptyUrlSkipped ==
    [][(EpisodeStep /\ p.feed.channel /\ listing[i].podcast_raw_url = EmptyUrl)
       => (p' = p /\ probes' = probes /\ pc' = pc /\ i' = i + 1)]_vars

\* the next step is a call of get_podcast_data, get_episode_content or
\* build_feed, by the script or by another caller
GatedCall ==
    \/ pc \in {"listing", "build"}
    \/ EpisodeStep
    \/ InCall("get_podcast_data")
    \/ InCall("get_episode_content")

\* the next step is a call of wplogin
LoginCall == pc \in {"loaded", "notfound"} \/ InCall("wplogin")

\* C14: authentication gate. A step sends a listing or content request only
\* from a state where logged_in is true; get_podcast_data, get_episode_content
\* and build_feed called on a session that is not logged in raise, send no
\* request and leave the document as it is; wplogin with an empty user name or
\* password raises and leaves logged_in as it was, which is false in every
\* run of the script.
C14_AuthenticationGate ==
    [][/\ (listed' > listed \/ fetches' > fetches) => logged_in
       /\ (GatedCall /\ ~logged_in)
             => (pc' = "failed" /\ p' = p /\ listed' = listed
                 /\ fetches' = fetches /\ probes' = probes)
       /\ (LoginCall /\ wplogin_raises(args[1], args[2]))
             => (pc' = "failed" /\ logged_in' = logged_in
                 /\ (run # NoRun => ~logged_in'))]_vars

\* build_feed was called on a session that is not logged in and raised,
\* leaving the Postcast without a document and no request sent
C14_Witness ==
    /\ pc = "failed" /\ call.op = "build_feed"
    /\ ~logged_in
    /\ ~p.feed.exists
    /\ listed = 0 /\ fetches = 0

\* C15: build_feed runs the incremental reconciliation on a fresh document:
\* a step of its loop on a listed episode whose id the document already has
\* does what the incremental loop does there, it goes on to the next element
\* and leaves the document as it is (a failed content request apart), so
\* that both end with one entry per distinct listed id, in listing order.
C15_FreshSameAsIncremental ==
    [][(pc = "build_loop" /\ i <= Len(listing) /\ has_episode(p, listing[i].id)
        /\ lastContent' # "error")
       => (p' = p /\ pc' = pc /\ i' = i + 1)]_vars

\* the URL names the CDN host
OnCdn(url) == url # <<>> /\ url[1] = CDN_HOST

\* C16: normalize_podcast_url never raises and its result follows the probe:
\* a URL not on the CDN host comes back unchanged and no HEAD request is
\* sent; a CDN URL comes back unchanged when the probe answers 200, with the
\* CDN host replaced by the primary host and the rest of the URL identical
\* when it answers 404, and unchanged on any other answer or failure.
C16_NormalizeByProbe ==
    (run = NoRun /\ pc = "api" /\ call.op = "normalize_podcast_url")
    => /\ ~call.raised
       /\ ~OnCdn(call.url) => (call.result = call.url /\ probes = 0)
       /\ (OnCdn(call.url) /\ call.probe = "404")
             => call.result = <<PRIMARY_HOST>> \o Tail(call.url)
       /\ (OnCdn(call.url) /\ call.probe # "404") => call.result = call.url

\* the document has an entry whose identifier reads as the decimal of id
HasEntry(feed, id) == \E k \in 1..Len(feed.items) : strip(feed.items[k].guid) = str(id)

\* C17: a has_episode(id) call that returns, returns true iff the document
\* has an entry whose identifier equals id; has_episode and add_episode
\* called on a Postcast without a document raise the not-initialized error
\* and leave it without a document.
C17_HasEpisodeIffEntry ==
    /\ []((ApiReturned /\ call.op = "has_episode" /\ ~call.raised)
            => (call.found <=> HasEntry(p.feed, call.id)))
    /\ []((ApiReturned /\ call.op = "has_episode" /\ call.found) => ~call.raised)
    /\ [][((InCall("has_episode") \/ InCall("add_episode")) /\ ~p.feed.exists)
            => (pc' = "failed" /\ call'.raised /\ p' = p)]_vars

\* has_episode found an id in a document read from a file and grown by one
\* entry since
C17_Witness ==
    /\ ApiReturned /\ call.op = "has_episode" /\ call.found
    /\ loadedFile.channel
    /\ Len(p.feed.items) = 2

\* C18: a file is written only for the podcast being processed, after its
\* listing was fetched and the loop has gone through every listed episode;
\* when the run has stopped on an error, the file of the podcast it stopped
\* in was not written in this run and is what was read (or absent) before.
C18_WriteAfterReconciliation ==
    /\ [][(files' # files \/ persisted' \ persisted # {})
            => /\ listed = 1 /\ ListingFetched
               /\ i = Len(listing) + 1
               /\ persisted' = persisted \cup {p.slug}
               /\ \A s \in Slugs \ {p.slug} : files'[s] = files[s]]_vars
    /\ []((pc = "failed" /\ p.slug \in Slugs)
            => (p.slug \notin persisted /\ files[p.slug] = loadedFile))

\* the run stopped in the second episode of a listing, after the first had
\* been added to the document read from the file
C18_Witness ==
    /\ pc = "failed" /\ i = 2
    /\ loadedFile.channel
    /\ Len(p.feed.items) = Len(loadedFile.items) + 1
    /\ files[p.slug] = loadedFile

\* C20: in the loop over an existing feed, the step on a listed episode that
\* has_episode reports present sends no request at all; the step on an
\* absent one sends at most one content request and at most one HEAD request;
\* so the requests of a podcast never outnumber the listed entries gone
\* through, and no HEAD is sent without a content request before it.
C20_FetchOnlyMissing ==
    /\ [][(pc = "loop" /\ i <= Len(listing) /\ p.feed.channel)
            => IF has_episode(p, listing[i].id)
               THEN /\ fetches' = fetches /\ probes' = probes
                    /\ listed' = listed /\ loginAttempts' = loginAttempts
               ELSE /\ fetches' \in {fetches, fetches + 1}
                    /\ probes' \in {probes, probes + 1}
                    /\ listed' = listed /\ loginAttempts' = loginAttempts]_vars
    /\ []((pc \in {"loop", "write"} /\ loadedFile.channel)
            => (fetches <= i - 1 /\ probes <= fetches /\ listed = 1))
    /\ []((pc = "failed" /\ loadedFile.channel /\ ListingFetched)
            => (fetches <= i /\ probes <= fetches /\ listed = 1))

\* of two listed episodes the first was in the file and cost no request, the
\* second was missing and cost one content request and one HEAD request
C20_Witness ==
    /\ pc = "loop" /\ i = 3
    /\ Len(loadedFile.items) = 1
    /\ int(loadedFile.items[1].guid) = listing[1].id
    /\ listing[2].id # listing[1].id
    /\ Len(addCalls) = 1
    /\ fetches = 1 /\ probes = 1

\* C19: run-level idempotence. When the program is run again on the same
\* folder, with the same arguments and every collaborator answering as in the
\* first run, no step of the later run changes a feed file: every feed keeps
\* the entries it had after the first run, in the same order; a podcast the
\* later run gets to write had its file read and nothing added to it.
C19_SecondRunAppendsNothing ==
    /\ [][run >= 2 => files' = files]_vars
    /\ []((run >= 2 /\ pc = "write")
            => (loadedFile.kind # "absent" /\ addCalls = <<>>
                /\ Canon(p.feed.items) = Canon(loadedFile.items)))

\* the second run has gone through two podcasts whose feeds the first run
\* had built with two episodes each
C19_Witness ==
    /\ run = 2 /\ pc = "finished"
    /\ persisted = Slugs /\ created = Slugs
    /\ \A s \in Slugs : Len(files[s].items) = 2

\* C21: when the script gets to open <slug>.xml for writing, the Postcast
\* has a document, and the write leaves in the file a feed with a channel
\* that holds every entry of that document, in its order; no written file
\* is empty.
C21_WrittenFileHasChannel ==
    /\ [](pc = "write" => p.feed.exists)
    /\ [][pc = "write"
            => /\ files'[p.slug].kind = "xml"
               /\ files'[p.slug].channel
               /\ Canon(files'[p.slug].items) = Canon(p.feed.items)]_vars
    /\ [](\A s \in persisted : files[s].kind = "xml" /\ files[s].channel)

====
